---- MODULE Spec2Model ----
(***************************************************************************)
(* Model of task2.py: WeightedUndirectedGraph, the in-memory co-purchase   *)
(* graph, its single mutator add_transaction and its five queries.         *)
(*                                                                         *)
(* Python dicts iterate in insertion order and sorted() is stable (also    *)
(* with reverse=True), so the order of equal counts in every "top" query   *)
(* is decided by insertion order.  A dict is therefore modelled as the     *)
(* sequence of its <<key, value>> entries in insertion order.              *)
(***************************************************************************)
EXTENDS Integers, Sequences, FiniteSets

(***************************************************************************)
(* Bounds of the model.                                                    *)
(***************************************************************************)
MaxTxns == 2    \* add_transaction calls per behaviour
MaxN == 2       \* largest top_n passed to a query

(***************************************************************************)
(* Item identifiers.  ItemOrder lists the identifiers the model ingests in *)
(* the order Python's str comparison gives them ("bread" < "butter" <      *)
(* "cheese"); "bread" has no category, as in test_task2.py.                *)
(***************************************************************************)
ItemOrder == <<"bread", "butter", "cheese">>

Items == {ItemOrder[i] : i \in DOMAIN ItemOrder}

Rank(x) == CHOOSE i \in DOMAIN ItemOrder : ItemOrder[i] = x

\* Python's  a < b  and  a <= b  on these identifiers
StrLess(a, b) == Rank(a) < Rank(b)

StrLeq(a, b) == Rank(a) <= Rank(b)

\* Lists passed to add_transaction and get_recommendation hold at most as
\* many entries as there are identifiers: every duplicate-free list over
\* Items, in every order, and the lists with duplicates of the same lengths.
MaxLen == Cardinality(Items)

(***************************************************************************)
(* Insertion-ordered dict: a sequence of <<key, value>> entries.           *)
(***************************************************************************)
Keys(d) == {d[i][1] : i \in DOMAIN d}

Has(d, k) == \E i \in DOMAIN d : d[i][1] = k

IndexOf(d, k) == CHOOSE i \in DOMAIN d : d[i][1] = k

Get(d, k) == d[IndexOf(d, k)][2]

\* d[k] = v : overwrite in place, or append a new entry at the end
Put(d, k, v) ==
    IF Has(d, k)
    THEN [i \in DOMAIN d |-> IF d[i][1] = k THEN <<k, v>> ELSE d[i]]
    ELSE Append(d, <<k, v>>)

\* reading d[k] on a defaultdict(dict): a missing key is created, empty
DefaultGet(d, k) == IF Has(d, k) THEN d ELSE Append(d, <<k, <<>>>>)

\* s[:n] for n >= 0
Slice(s, n) == SubSeq(s, 1, IF n < Len(s) THEN n ELSE Len(s))

(***************************************************************************)
(* sorted(items): ascending, by string comparison.                         *)
(***************************************************************************)
RECURSIVE InsertSorted(_, _)
InsertSorted(s, x) ==
    IF s = <<>> THEN <<x>>
    ELSE IF StrLess(x, Head(s)) THEN <<x>> \o s
    ELSE <<Head(s)>> \o InsertSorted(Tail(s), x)

RECURSIVE sorted(_)
sorted(s) ==
    IF s = <<>> THEN <<>>
    ELSE InsertSorted(sorted(SubSeq(s, 1, Len(s) - 1)), s[Len(s)])

(***************************************************************************)
(* sorted(entries, key=lambda x: x[1], reverse=True): descending by the    *)
(* second component, equal keys keeping their original relative order.     *)
(***************************************************************************)
\* variant: an entry is put before the entries of equal count (unstable sort)
RECURSIVE InsertByCountDesc_before_equal(_, _)
InsertByCountDesc_before_equal(s, e) ==
    IF s = <<>> THEN <<e>>
    ELSE IF e[2] >= Head(s)[2] THEN <<e>> \o s
    ELSE <<Head(s)>> \o InsertByCountDesc_before_equal(Tail(s), e)

RECURSIVE InsertByCountDesc(_, _)
InsertByCountDesc(s, e) ==
    IF s = <<>> THEN <<e>>
    ELSE IF e[2] > Head(s)[2] THEN <<e>> \o s
    ELSE <<Head(s)>> \o InsertByCountDesc(Tail(s), e)

RECURSIVE SortByCountDesc(_)
SortByCountDesc(s) ==
    IF s = <<>> THEN <<>>
    ELSE InsertByCountDesc(SortByCountDesc(SubSeq(s, 1, Len(s) - 1)), s[Len(s)])

(***************************************************************************)
(* State of one WeightedUndirectedGraph.                                   *)
(***************************************************************************)
VARIABLES
    adjacency_list,     \* dict item -> dict neighbor -> count (defaultdict(dict))
    product_frequency,  \* Counter: item -> count, 0 for an item never counted
    ret,                \* the last call: [op, args, value]
    n_calls,            \* add_transaction calls made so far
    tx_containing,      \* history: item -> number of ingested transactions listing it
    tx_with_both,       \* history: <<A, B>> -> number of ingested transactions listing both
    deduplicated,       \* history: every ingested transaction listed each item at most once
    in_multi,           \* history: the items listed in some transaction of 2 or more entries
    before              \* history: the graph as it was when the pending query was called

vars == <<adjacency_list, product_frequency, ret, n_calls,
          tx_containing, tx_with_both, deduplicated, in_multi, before>>

graph == <<adjacency_list, product_frequency>>

history == <<n_calls, tx_containing, tx_with_both, deduplicated, in_multi>>

(***************************************************************************)
(* _init_product_categories: the literal category table, in source order.  *)
(***************************************************************************)
product_categories ==
    << <<"whole milk", "dairy">>, <<"yogurt", "dairy">>,
       <<"whipped/sour cream", "dairy">>, <<"butter", "dairy">>,
       <<"cheese", "dairy">>,
       <<"other vegetables", "vegetables">>, <<"root vegetables", "vegetables">>,
       <<"carrots", "vegetables">>, <<"tomatoes", "vegetables">>,
       <<"tropical fruit", "fruits">>, <<"pip fruit", "fruits">>,
       <<"citrus fruit", "fruits">>, <<"grapes", "fruits">>,
       <<"berries", "fruits">>,
       <<"rolls/buns", "bakery">>, <<"brown bread", "bakery">>,
       <<"white bread", "bakery">>, <<"pastry", "bakery">>,
       <<"soda", "drinks">>, <<"bottled water", "drinks">>,
       <<"canned beer", "drinks">>, <<"bottled beer", "drinks">>,
       <<"coffee", "drinks">>, <<"tea", "drinks">>,
       <<"sausage", "meat">>, <<"frankfurter", "meat">>,
       <<"pork", "meat">>, <<"beef", "meat">>, <<"chicken", "meat">> >>

\* __init__: empty adjacency list, empty Counter
Init ==
    /\ adjacency_list = <<>>
    /\ product_frequency = [x \in Items |-> 0]
    /\ ret = [op |-> "__init__", args |-> <<>>, value |-> <<>>]
    /\ n_calls = 0
    /\ tx_containing = [x \in Items |-> 0]
    /\ tx_with_both = [p \in Items \X Items |-> 0]
    /\ deduplicated = TRUE
    /\ in_multi = {}
    /\ before = <<>>

QueryOps == {"get_top_co_purchase", "get_top3_product_pairs",
             "check_co_purchase_relation", "filter_by_category",
             "get_recommendation"}

\* no query result is pending with the caller
Idle == ret.op \notin QueryOps

(***************************************************************************)
(* add_transaction                                                         *)
(***************************************************************************)
\* variant: only the first listed item is counted
CountItems_first_only(freq, items) ==
    IF items = <<>> THEN freq ELSE [freq EXCEPT ![Head(items)] = @ + 1]

\* variant: every listed item is counted twice
RECURSIVE CountItems_twice(_, _)
CountItems_twice(freq, items) ==
    IF items = <<>> THEN freq
    ELSE CountItems_twice([freq EXCEPT ![Head(items)] = @ + 2], Tail(items))

\* for item in items: self.product_frequency[item] += 1
RECURSIVE CountItems(_, _)
CountItems(freq, items) ==
    IF items = <<>> THEN freq
    ELSE CountItems([freq EXCEPT ![Head(items)] = @ + 1], Tail(items))

\* variant: an edge already present is reset to 1 instead of incremented
UpdateEdge_no_increment(adj, item1, item2) ==
    LET a == IF Has(adj, item1) THEN adj ELSE Append(adj, <<item1, <<>>>>)
    IN  Put(a, item1, Put(Get(a, item1), item2, 1))

\* variant: a new neighbor replaces the item's neighbor mapping
UpdateEdge_replaces_neighbors(adj, item1, item2) ==
    LET a == IF Has(adj, item1) THEN adj ELSE Append(adj, <<item1, <<>>>>)
        nb == Get(a, item1)
    IN  Put(a, item1,
            IF Has(nb, item2) THEN Put(nb, item2, Get(nb, item2) + 1)
            ELSE <<<<item2, 1>>>>)

\* lines 103-106: the edge item1 -> item2 (reading adjacency_list[item1]
\* creates the key item1 when it is missing)
UpdateEdge(adj, item1, item2) ==
    LET a == DefaultGet(adj, item1)
        nb == Get(a, item1)
    IN  Put(a, item1,
            IF Has(nb, item2) THEN Put(nb, item2, Get(nb, item2) + 1)
            ELSE Put(nb, item2, 1))

\* variant: the edge item2 -> item1 is not written
UpdatePair_one_way(adj, item1, item2) ==
    UpdateEdge(adj, item1, item2)

\* lines 102-111: both directions of one pair
UpdatePair(adj, item1, item2) ==
    UpdateEdge(UpdateEdge(adj, item1, item2), item2, item1)

\* variant: the inner loop starts at i instead of i + 1
RECURSIVE PairLoop_from_i(_, _, _, _)
PairLoop_from_i(adj, sorted_items, i, j) ==
    IF i > Len(sorted_items) THEN adj
    ELSE IF j > Len(sorted_items) THEN PairLoop_from_i(adj, sorted_items, i + 1, i + 1)
    ELSE PairLoop_from_i(UpdateEdge(UpdateEdge(adj, sorted_items[i], sorted_items[j]),
                                    sorted_items[j], sorted_items[i]),
                         sorted_items, i, j + 1)

\* lines 98-111: for i in range(len): for j in range(i + 1, len)
RECURSIVE PairLoop(_, _, _, _)
PairLoop(adj, sorted_items, i, j) ==
    IF i > Len(sorted_items) THEN adj
    ELSE IF j > Len(sorted_items) THEN PairLoop(adj, sorted_items, i + 1, i + 2)
    ELSE PairLoop(UpdatePair(adj, sorted_items[i], sorted_items[j]),
                  sorted_items, i, j + 1)

Range(s) == {s[i] : i \in DOMAIN s}

NoDuplicates(s) == \A i, j \in DOMAIN s : s[i] = s[j] => i = j

add_transaction(items) ==
    /\ n_calls < MaxTxns
    /\ Idle
    /\ product_frequency' = CountItems(product_frequency, items)
    /\ adjacency_list' =
         IF Len(items) < 2 THEN adjacency_list
         ELSE PairLoop(adjacency_list, sorted(items), 1, 2)
    /\ ret' = [op |-> "add_transaction", args |-> <<>>, value |-> <<>>]
    /\ n_calls' = n_calls + 1
    /\ tx_containing' =
         [x \in Items |-> tx_containing[x] + (IF x \in Range(items) THEN 1 ELSE 0)]
    /\ tx_with_both' =
         [p \in Items \X Items |->
            tx_with_both[p] + (IF {p[1], p[2]} \subseteq Range(items) THEN 1 ELSE 0)]
    /\ deduplicated' = (deduplicated /\ NoDuplicates(items))
    /\ in_multi' = (IF Len(items) >= 2 THEN in_multi \cup Range(items) ELSE in_multi)
    /\ before' = <<>>

\* every list of at most n identifiers, duplicates included
SeqsUpTo(S, n) == UNION {[1..k -> S] : k \in 0..n}

Transactions == SeqsUpTo(Items, MaxLen)

AddTransaction == \E items \in Transactions : add_transaction(items)

(***************************************************************************)
(* get_top_co_purchase                                                     *)
(***************************************************************************)
get_top_co_purchase(adj, target_product, top_n) ==
    IF ~Has(adj, target_product) THEN <<>>
    ELSE Slice(SortByCountDesc(Get(adj, target_product)), top_n)

\* variant: adjacency_list[target_product] is subscripted without the
\* membership test, which creates an empty entry for an unknown item
get_top_co_purchase_reads_unguarded(adj, target_product) ==
    DefaultGet(adj, target_product)

\* the adjacency list after the call: adjacency_list[target_product] is
\* subscripted only behind the membership test of line 122
get_top_co_purchase_reads(adj, target_product) ==
    IF ~Has(adj, target_product) THEN adj ELSE DefaultGet(adj, target_product)

(***************************************************************************)
(* get_top3_product_pairs                                                  *)
(***************************************************************************)
Top3 == 3

\* variant: the test "pair not in processed_pairs" is missing
RECURSIVE ScanPairs_no_dedupe(_, _, _, _, _)
ScanPairs_no_dedupe(adj, i, j, processed_pairs, all_pairs) ==
    IF i > Len(adj) THEN all_pairs
    ELSE IF j > Len(adj[i][2])
         THEN ScanPairs_no_dedupe(adj, i + 1, 1, processed_pairs, all_pairs)
    ELSE ScanPairs_no_dedupe(adj, i, j + 1, processed_pairs,
             Append(all_pairs, <<sorted(<<adj[i][1], adj[i][2][j][1]>>), adj[i][2][j][2]>>))

\* lines 142-148: scan every (item1, item2, count) of the adjacency list in
\* iteration order, keeping the first occurrence of each sorted pair
RECURSIVE ScanPairs(_, _, _, _, _)
ScanPairs(adj, i, j, processed_pairs, all_pairs) ==
    IF i > Len(adj) THEN all_pairs
    ELSE IF j > Len(adj[i][2])
         THEN ScanPairs(adj, i + 1, 1, processed_pairs, all_pairs)
    ELSE LET item1 == adj[i][1]
             item2 == adj[i][2][j][1]
             count == adj[i][2][j][2]
             pair == sorted(<<item1, item2>>)
         IN  IF pair \notin processed_pairs
             THEN ScanPairs(adj, i, j + 1, processed_pairs \cup {pair},
                            Append(all_pairs, <<pair, count>>))
             ELSE ScanPairs(adj, i, j + 1, processed_pairs, all_pairs)

\* variant: reverse=True is missing, the pairs come in ascending count
get_top3_product_pairs_ascending(adj) ==
    LET desc == SortByCountDesc(ScanPairs(adj, 1, 1, {}, <<>>))
    IN  Slice([i \in DOMAIN desc |-> desc[Len(desc) + 1 - i]], Top3)

get_top3_product_pairs(adj) ==
    Slice(SortByCountDesc(ScanPairs(adj, 1, 1, {}, <<>>)), Top3)

(***************************************************************************)
(* check_co_purchase_relation                                              *)
(***************************************************************************)
check_co_purchase_relation(adj, item1, item2) ==
    IF Has(adj, item1) /\ Has(Get(adj, item1), item2)
    THEN Get(Get(adj, item1), item2)
    ELSE 0

\* line 161: "item1 in adjacency_list and ..." short-circuits the subscript
check_co_purchase_relation_reads(adj, item1) ==
    IF Has(adj, item1) THEN DefaultGet(adj, item1) ELSE adj

(***************************************************************************)
(* filter_by_category                                                      *)
(***************************************************************************)
\* line 172: [p for p, cat in self.product_categories.items() if cat == category]
CategoryProducts(category) ==
    LET hits == SelectSeq(product_categories, LAMBDA e : e[2] = category)
    IN  [i \in DOMAIN hits |-> hits[i][1]]

\* variant: the neighbors are not restricted to the category
RECURSIVE FilterLoop_all_neighbors(_, _, _, _)
FilterLoop_all_neighbors(adj, category_products, k, filtered_adj) ==
    IF k > Len(category_products) THEN filtered_adj
    ELSE LET product == category_products[k]
         IN  IF Has(adj, product)
             THEN FilterLoop_all_neighbors(adj, category_products, k + 1,
                      IF Get(adj, product) # <<>>
                      THEN Put(filtered_adj, product, Get(adj, product))
                      ELSE filtered_adj)
             ELSE FilterLoop_all_neighbors(adj, category_products, k + 1, filtered_adj)

\* lines 179-187
RECURSIVE FilterLoop(_, _, _, _)
FilterLoop(adj, category_products, k, filtered_adj) ==
    IF k > Len(category_products) THEN filtered_adj
    ELSE LET product == category_products[k]
         IN  IF Has(adj, product)
             THEN LET filtered_neighbors ==
                          SelectSeq(Get(adj, product),
                                    LAMBDA e : e[1] \in Range(category_products))
                  IN  FilterLoop(adj, category_products, k + 1,
                                 IF filtered_neighbors # <<>>
                                 THEN Put(filtered_adj, product, filtered_neighbors)
                                 ELSE filtered_adj)
             ELSE FilterLoop(adj, category_products, k + 1, filtered_adj)

filter_by_category(adj, category) ==
    LET category_products == CategoryProducts(category)
    IN  IF category_products = <<>> THEN <<>>
        ELSE FilterLoop(adj, category_products, 1, <<>>)

\* adjacency_list[product] is subscripted only behind "product in adjacency_list"
RECURSIVE GuardedReads(_, _)
GuardedReads(adj, products) ==
    IF products = <<>> THEN adj
    ELSE GuardedReads(IF Has(adj, Head(products))
                      THEN DefaultGet(adj, Head(products)) ELSE adj,
                      Tail(products))

(***************************************************************************)
(* get_recommendation                                                      *)
(***************************************************************************)
\* variant: the running score is not read back (= instead of +=)
CounterGet_zero(c, k) == 0

\* Counter: a missing key reads as 0
CounterGet(c, k) == IF Has(c, k) THEN Get(c, k) ELSE 0

\* variant: the test "neighbor not in input_products" is missing
RECURSIVE ScoreLoop_no_exclusion(_, _, _, _, _)
ScoreLoop_no_exclusion(adj, input_products, p, q, recommendation_scores) ==
    IF p > Len(input_products) THEN recommendation_scores
    ELSE IF ~Has(adj, input_products[p])
         THEN ScoreLoop_no_exclusion(adj, input_products, p + 1, 1, recommendation_scores)
    ELSE IF q > Len(Get(adj, input_products[p]))
         THEN ScoreLoop_no_exclusion(adj, input_products, p + 1, 1, recommendation_scores)
    ELSE LET neighbor == Get(adj, input_products[p])[q][1]
             count == Get(adj, input_products[p])[q][2]
         IN  ScoreLoop_no_exclusion(adj, input_products, p, q + 1,
                 Put(recommendation_scores, neighbor,
                     (IF Has(recommendation_scores, neighbor)
                      THEN Get(recommendation_scores, neighbor) ELSE 0) + count))

\* lines 200-206
RECURSIVE ScoreLoop(_, _, _, _, _)
ScoreLoop(adj, input_products, p, q, recommendation_scores) ==
    IF p > Len(input_products) THEN recommendation_scores
    ELSE IF ~Has(adj, input_products[p])
         THEN ScoreLoop(adj, input_products, p + 1, 1, recommendation_scores)
    ELSE IF q > Len(Get(adj, input_products[p]))
         THEN ScoreLoop(adj, input_products, p + 1, 1, recommendation_scores)
    ELSE LET neighbor == Get(adj, input_products[p])[q][1]
             count == Get(adj, input_products[p])[q][2]
         IN  ScoreLoop(adj, input_products, p, q + 1,
                       IF neighbor \notin Range(input_products)
                       THEN Put(recommendation_scores, neighbor,
                                CounterGet(recommendation_scores, neighbor) + count)
                       ELSE recommendation_scores)

\* Counter.most_common(n) is heapq.nlargest(n, items, key=count), the same
\* list as sorted(items, key=count, reverse=True)[:n] for n >= 0
most_common(c, n) == Slice(SortByCountDesc(c), n)

get_recommendation(adj, input_products, top_n) ==
    most_common(ScoreLoop(adj, input_products, 1, 1, <<>>), top_n)

(***************************************************************************)
(* The calls, as steps of a caller that holds one result at a time (the    *)
(* menu loop of main, the statements of the tests).                        *)
(***************************************************************************)
TopNs == 0..MaxN

Categories == {"dairy", "drinks", "seafood"}

InputLists == SeqsUpTo(Items, MaxLen)

Query(op, args, value, adj_after) ==
    /\ Idle
    /\ ret' = [op |-> op, args |-> args, value |-> value]
    /\ adjacency_list' = adj_after
    /\ before' = graph
    /\ UNCHANGED <<product_frequency, history>>

GetTopCoPurchase ==
    \E target_product \in Items, top_n \in TopNs :
        Query("get_top_co_purchase", <<target_product, top_n>>,
              get_top_co_purchase(adjacency_list, target_product, top_n),
              get_top_co_purchase_reads(adjacency_list, target_product))

GetTop3ProductPairs ==
    Query("get_top3_product_pairs", <<>>,
          get_top3_product_pairs(adjacency_list), adjacency_list)

CheckCoPurchaseRelation ==
    \E item1 \in Items, item2 \in Items :
        Query("check_co_purchase_relation", <<item1, item2>>,
              check_co_purchase_relation(adjacency_list, item1, item2),
              check_co_purchase_relation_reads(adjacency_list, item1))

FilterByCategory ==
    \E category \in Categories :
        Query("filter_by_category", <<category>>,
              filter_by_category(adjacency_list, category),
              GuardedReads(adjacency_list, CategoryProducts(category)))

GetRecommendation ==
    \E input_products \in InputLists, top_n \in TopNs :
        Query("get_recommendation", <<input_products, top_n>>,
              get_recommendation(adjacency_list, input_products, top_n),
              GuardedReads(adjacency_list, input_products))

\* the caller is done with the result and goes on to its next statement
Continue ==
    /\ ~Idle
    /\ ret' = [op |-> "idle", args |-> <<>>, value |-> <<>>]
    /\ before' = <<>>
    /\ UNCHANGED <<graph, history>>

(***************************************************************************)
(* Specifications: the graph under add_transaction alone, and with each    *)
(* query.                                                                  *)
(***************************************************************************)
NextAdd == AddTransaction

SpecAdd == Init /\ [][NextAdd]_vars

NextTopCo == AddTransaction \/ GetTopCoPurchase \/ Continue

SpecTopCo == Init /\ [][NextTopCo]_vars

NextPairs == AddTransaction \/ GetTop3ProductPairs \/ Continue

SpecPairs == Init /\ [][NextPairs]_vars

NextCheck == AddTransaction \/ CheckCoPurchaseRelation \/ Continue

SpecCheck == Init /\ [][NextCheck]_vars

NextFilter == AddTransaction \/ FilterByCategory \/ Continue

SpecFilter == Init /\ [][NextFilter]_vars

NextReco == AddTransaction \/ GetRecommendation \/ Continue

SpecReco == Init /\ [][NextReco]_vars

Next ==
    \/ AddTransaction
    \/ GetTopCoPurchase
    \/ GetTop3ProductPairs
    \/ CheckCoPurchaseRelation
    \/ FilterByCategory
    \/ GetRecommendation
    \/ Continue

Spec == Init /\ [][Next]_vars

(***************************************************************************)
(* Properties                                                              *)
(***************************************************************************)
\* adjacency_list[A] has key B
Recorded(adj, A, B) == Has(adj, A) /\ Has(Get(adj, A), B)

Min(a, b) == IF a < b THEN a ELSE b

\* C1 (symmetry): in every reachable state, for all items A and B,
\* adjacency_list[A] has key B exactly when adjacency_list[B] has key A, and
\* then the two counts are equal; check_co_purchase_relation(A, B) equals
\* check_co_purchase_relation(B, A), for every pair and for the call just made.
C1_Symmetry ==
    /\ \A A \in Items, B \in Items :
         /\ Recorded(adjacency_list, A, B) <=> Recorded(adjacency_list, B, A)
         /\ Recorded(adjacency_list, A, B) =>
              Get(Get(adjacency_list, A), B) = Get(Get(adjacency_list, B), A)
         /\ check_co_purchase_relation(adjacency_list, A, B)
              = check_co_purchase_relation(adjacency_list, B, A)
    /\ ret.op = "check_co_purchase_relation" =>
         ret.value = check_co_purchase_relation(adjacency_list, ret.args[2], ret.args[1])

\* a call on two different items answered 2, one of the transactions having
\* listed an item twice
C1_Witness ==
    /\ ret.op = "check_co_purchase_relation"
    /\ ret.args[1] # ret.args[2]
    /\ ret.value = 2
    /\ ~deduplicated

\* C2 (count exactness): when every ingested transaction listed each item at
\* most once, product_frequency[A] is the number of ingested transactions
\* that list A, and check_co_purchase_relation(A, B), A # B, is the number of
\* ingested transactions that list both (0 when there is none).
C2_CountExactness ==
    deduplicated =>
        /\ \A A \in Items : product_frequency[A] = tx_containing[A]
        /\ \A A \in Items, B \in Items :
             A # B => check_co_purchase_relation(adjacency_list, A, B)
                        = tx_with_both[<<A, B>>]
        /\ (ret.op = "check_co_purchase_relation" /\ ret.args[1] # ret.args[2]) =>
             ret.value = tx_with_both[<<ret.args[1], ret.args[2]>>]

\* two duplicate-free transactions ingested; the call was on a pair listed by
\* both, the first item being listed alone with it only once
C2_Witness ==
    /\ deduplicated
    /\ n_calls = 2
    /\ ret.op = "check_co_purchase_relation"
    /\ ret.args[1] # ret.args[2]
    /\ ret.value = 2
    /\ \E C \in Items : tx_with_both[<<ret.args[1], C>>] = 1

\* C9 (frequency bound): when every ingested transaction listed each item at
\* most once, every recorded count adjacency_list[A][B] is at most
\* product_frequency[A] and at most product_frequency[B].
C9_FrequencyBound ==
    deduplicated =>
        \A A \in Items, B \in Items :
            Recorded(adjacency_list, A, B) =>
                /\ Get(Get(adjacency_list, A), B) <= product_frequency[A]
                /\ Get(Get(adjacency_list, A), B) <= product_frequency[B]

\* a recorded count strictly below one frequency and equal to the other
C9_Witness ==
    /\ deduplicated
    /\ \E A \in Items, B \in Items :
         /\ Recorded(adjacency_list, A, B)
         /\ Get(Get(adjacency_list, A), B) = 1
         /\ product_frequency[A] = 2
         /\ product_frequency[B] = 1

NoSelfNeighbor == \A A \in Items : ~Recorded(adjacency_list, A, A)

\* C10 as stated: no item is its own neighbor, whatever lists were ingested.
C10_Original == NoSelfNeighbor

\* C10 (no self-neighbor), amended: when every ingested transaction listed
\* each item at most once, no item A is a key of adjacency_list[A].
C10_NoSelfNeighbor == deduplicated => NoSelfNeighbor

\* two duplicate-free transactions of two or more items were ingested
C10_Witness ==
    /\ deduplicated
    /\ n_calls = 2
    /\ \E A \in Items : Has(adjacency_list, A) /\ Len(Get(adjacency_list, A)) = 2

(***************************************************************************)
(* Ranked results.  value is the first n of entries (a set of <<key,       *)
(* count>>) under the strict order Before: as long as n or as the whole    *)
(* set, made of entries, in order, everything left out coming after.       *)
(***************************************************************************)
IsFirstN(value, entries, n, Before(_, _)) ==
    /\ Len(value) = Min(n, Cardinality(entries))
    /\ \A i \in DOMAIN value : value[i] \in entries
    /\ \A i, j \in DOMAIN value : i < j => Before(value[i], value[j])
    /\ \A e \in entries :
         (\A i \in DOMAIN value : value[i] # e) =>
             \A i \in DOMAIN value : Before(value[i], e)

MinOf(S) == CHOOSE m \in S : \A x \in S : m <= x

\* descending count, equal counts by ascending identifier
ByCountThenName(a, b) ==
    a[2] > b[2] \/ (a[2] = b[2] /\ StrLess(a[1], b[1]))

\* descending count, equal counts by position in the dict d
ByCountThenPosition(d, a, b) ==
    a[2] > b[2] \/ (a[2] = b[2] /\ IndexOf(d, a[1]) < IndexOf(d, b[1]))

TopCoCase ==
    /\ ret.op = "get_top_co_purchase"
    /\ ret.args[2] >= 1
    /\ Has(adjacency_list, ret.args[1])
    /\ Get(adjacency_list, ret.args[1]) # <<>>

\* C3 as stated: for a target with neighbors and n >= 1 the result is the
\* first n of the target's (neighbor, count) pairs by descending count, equal
\* counts by ascending identifier.
C3_Original ==
    TopCoCase =>
        IsFirstN(ret.value, Range(Get(adjacency_list, ret.args[1])), ret.args[2],
                 ByCountThenName)

\* C3, amended: for a target with neighbors and n >= 1 the result is the
\* first n (all when fewer) of the target's (neighbor, count) pairs by
\* descending count, equal counts in the order in which the neighbors were
\* first recorded for the target.
C3_TopCoPurchase ==
    TopCoCase =>
        IsFirstN(ret.value, Range(Get(adjacency_list, ret.args[1])), ret.args[2],
                 LAMBDA a, b : ByCountThenPosition(Get(adjacency_list, ret.args[1]), a, b))

\* two neighbors of equal count returned, the greater identifier first
C3_Witness ==
    /\ TopCoCase
    /\ Len(ret.value) = 2
    /\ ret.value[1][2] = ret.value[2][2]
    /\ StrLess(ret.value[2][1], ret.value[1][1])

\* the pair of A and B in canonical (sorted) form
Canonical(A, B) == IF StrLeq(A, B) THEN <<A, B>> ELSE <<B, A>>

\* the recorded unordered pairs, each with its count
RecordedPairs(adj) ==
    {<<Canonical(p[1], p[2]), Get(Get(adj, p[1]), p[2])>> :
        p \in {q \in Items \X Items : Recorded(adj, q[1], q[2])}}

PairLess(p, q) == StrLess(p[1], q[1]) \/ (p[1] = q[1] /\ StrLess(p[2], q[2]))

\* descending count, equal counts by ascending canonical pair
ByCountThenPair(a, b) ==
    a[2] > b[2] \/ (a[2] = b[2] /\ PairLess(a[1], b[1]))

\* where an iteration over adj (items in key order, each item's neighbors in
\* their order) first meets the pair
ScanPosition(adj, pair) ==
    MinOf({ij[1] * (Cardinality(Items) + 1) + ij[2] :
             ij \in {x \in (DOMAIN adj) \X (1..Cardinality(Items)) :
                       /\ x[2] <= Len(adj[x[1]][2])
                       /\ Canonical(adj[x[1]][1], adj[x[1]][2][x[2]][1]) = pair}})

ByCountThenScan(adj, a, b) ==
    a[2] > b[2] \/ (a[2] = b[2] /\ ScanPosition(adj, a[1]) < ScanPosition(adj, b[1]))

\* C4 as stated: the result is the first 3 of the recorded unordered pairs by
\* descending count, equal counts by ascending canonical pair.
C4_Original ==
    ret.op = "get_top3_product_pairs" =>
        IsFirstN(ret.value, RecordedPairs(adjacency_list), Top3, ByCountThenPair)

\* C4, amended: the result is the first 3 (all when fewer) of the recorded
\* unordered pairs by descending count, equal counts in the order in which an
\* iteration over the adjacency list first meets the pairs.
C4_Top3ProductPairs ==
    ret.op = "get_top3_product_pairs" =>
        IsFirstN(ret.value, RecordedPairs(adjacency_list), Top3,
                 LAMBDA a, b : ByCountThenScan(adjacency_list, a, b))

\* more than 3 pairs recorded, 3 returned, two of equal count with the
\* greater pair first
C4_Witness ==
    /\ ret.op = "get_top3_product_pairs"
    /\ Cardinality(RecordedPairs(adjacency_list)) > Top3
    /\ Len(ret.value) = Top3
    /\ \E i \in 1..(Top3 - 1) :
         /\ ret.value[i][2] = ret.value[i + 1][2]
         /\ PairLess(ret.value[i + 1][1], ret.value[i][1])

\* the candidates of a recommendation: neighbors of an input item, not inputs
Candidates(adj, inputs) ==
    {c \in Items : /\ c \notin Range(inputs)
                   /\ \E p \in DOMAIN inputs : Recorded(adj, inputs[p], c)}

\* the sum over the entries of inputs of the entry's count with c
RECURSIVE Score(_, _, _)
Score(adj, inputs, c) ==
    IF inputs = <<>> THEN 0
    ELSE check_co_purchase_relation(adj, Head(inputs), c) + Score(adj, Tail(inputs), c)

ScoredCandidates(adj, inputs) ==
    {<<c, Score(adj, inputs, c)>> : c \in Candidates(adj, inputs)}

\* where a scan of inputs, each input's neighbors in their order, first meets c
FirstMet(adj, inputs, c) ==
    MinOf({pq[1] * (Cardinality(Items) + 1) + pq[2] :
             pq \in {x \in (DOMAIN inputs) \X (1..Cardinality(Items)) :
                       /\ Has(adj, inputs[x[1]])
                       /\ x[2] <= Len(Get(adj, inputs[x[1]]))
                       /\ Get(adj, inputs[x[1]])[x[2]][1] = c}})

ByScoreThenMet(adj, inputs, a, b) ==
    a[2] > b[2] \/ (a[2] = b[2] /\ FirstMet(adj, inputs, a[1]) < FirstMet(adj, inputs, b[1]))

\* C5 as stated: the result is the first n of the candidates by descending
\* score, equal scores by ascending identifier; empty inputs give [].
C5_Original ==
    ret.op = "get_recommendation" =>
        /\ IsFirstN(ret.value, ScoredCandidates(adjacency_list, ret.args[1]),
                    ret.args[2], ByCountThenName)
        /\ ret.args[1] = <<>> => ret.value = <<>>

\* C5, amended: the result is the first n (all when fewer) of the candidates
\* by descending score, equal scores in the order in which the candidates are
\* first met scanning the input items in their order and each one's neighbors
\* in the order they were recorded; a candidate is a neighbor of an input
\* item that is not in inputs, its score the sum over the entries of inputs
\* of the entry's co-purchase count with it; empty inputs give [].
C5_Recommendation ==
    ret.op = "get_recommendation" =>
        /\ IsFirstN(ret.value, ScoredCandidates(adjacency_list, ret.args[1]),
                    ret.args[2],
                    LAMBDA a, b : ByScoreThenMet(adjacency_list, ret.args[1], a, b))
        /\ ret.args[1] = <<>> => ret.value = <<>>

\* two candidates of equal score returned, the greater identifier first
C5_Witness ==
    /\ ret.op = "get_recommendation"
    /\ Len(ret.value) = 2
    /\ ret.value[1][2] = ret.value[2][2]
    /\ StrLess(ret.value[2][1], ret.value[1][1])

\* C6 (recommendation exclusion): no item of the result of
\* get_recommendation(inputs, n) is a member of inputs.
C6_Exclusion ==
    ret.op = "get_recommendation" =>
        \A i \in DOMAIN ret.value : ret.value[i][1] \notin Range(ret.args[1])

\* two different inputs that are neighbors of each other, and a result whose
\* item is a neighbor of both
C6_Witness ==
    /\ ret.op = "get_recommendation"
    /\ Len(ret.args[1]) = 2
    /\ Recorded(adjacency_list, ret.args[1][1], ret.args[1][2])
    /\ ret.args[1][1] # ret.args[1][2]
    /\ Len(ret.value) = 1
    /\ Recorded(adjacency_list, ret.args[1][1], ret.value[1][1])
    /\ Recorded(adjacency_list, ret.args[1][2], ret.value[1][1])
    /\ ret.value[1][2] = 2

\* P has category c in product_categories
InCategory(P, c) == \E i \in DOMAIN product_categories : product_categories[i] = <<P, c>>

AllProducts == Items \cup Keys(product_categories)

UniqueKeys(d) == \A i, j \in DOMAIN d : d[i][1] = d[j][1] => i = j

\* C7 (category filter): the result of filter_by_category(c) is the
\* co-purchase subgraph induced by category c: result[P][Q] is defined, with
\* value adjacency_list[P][Q], exactly when P and Q both have category c and
\* adjacency_list[P][Q] is defined; no key maps to an empty mapping; every key
\* and nested neighbor has category c; a category without items gives {}.
C7_FilterByCategory ==
    ret.op = "filter_by_category" =>
        LET c == ret.args[1]
            result == ret.value
        IN  /\ UniqueKeys(result)
            /\ \A i \in DOMAIN result :
                 /\ UniqueKeys(result[i][2])
                 /\ result[i][2] # <<>>
                 /\ InCategory(result[i][1], c)
                 /\ \A j \in DOMAIN result[i][2] : InCategory(result[i][2][j][1], c)
            /\ \A P \in AllProducts, Q \in AllProducts :
                 /\ Recorded(result, P, Q) <=>
                      /\ InCategory(P, c)
                      /\ InCategory(Q, c)
                      /\ Recorded(adjacency_list, P, Q)
                 /\ Recorded(result, P, Q) =>
                      Get(Get(result, P), Q) = Get(Get(adjacency_list, P), Q)
            /\ (\A P \in AllProducts : ~InCategory(P, c)) => result = <<>>

\* a non-empty result one of whose items lost a neighbor outside the category
C7_Witness ==
    /\ ret.op = "filter_by_category"
    /\ \E i \in DOMAIN ret.value :
         Len(ret.value[i][2]) < Len(Get(adjacency_list, ret.value[i][1]))

\* C8 (single-item frame): an add_transaction step with fewer than 2 items
\* leaves adjacency_list unchanged, a one-item list [A] raising
\* product_frequency[A] by exactly 1 and an empty list changing nothing; and
\* get_top_co_purchase answers [] for an item seen only in single-item
\* transactions.
C8_SingleItemFrame ==
    /\ [][\A items \in {t \in Transactions : Len(t) < 2} :
            add_transaction(items) =>
                /\ adjacency_list' = adjacency_list
                /\ product_frequency' =
                     IF items = <<>> THEN product_frequency
                     ELSE [product_frequency EXCEPT ![items[1]] = @ + 1]]_vars
    /\ [](( /\ ret.op = "get_top_co_purchase"
            /\ tx_containing[ret.args[1]] > 0
            /\ ret.args[1] \notin in_multi ) => ret.value = <<>>)

\* the graph has edges, and the call was on an item ingested once, alone
C8_Witness ==
    /\ ret.op = "get_top_co_purchase"
    /\ adjacency_list # <<>>
    /\ product_frequency[ret.args[1]] = 1
    /\ tx_containing[ret.args[1]] = 1
    /\ ret.args[1] \notin in_multi
    /\ ret.value = <<>>

\* C11 (queries are read-only): after every call of get_top_co_purchase,
\* get_top3_product_pairs, check_co_purchase_relation, filter_by_category or
\* get_recommendation, with any arguments, product_frequency and
\* adjacency_list are what they were when the call was made, the key set of
\* adjacency_list included (no entry is created for an unknown item); a
\* later query therefore reads the same graph as it would have before.
\* (product_categories is never assigned after __init__.)
C11_QueriesReadOnly ==
    ret.op \in QueryOps =>
        /\ before[2] = product_frequency
        /\ Keys(before[1]) = Keys(adjacency_list)
        /\ before[1] = adjacency_list

\* a query on an item that was never ingested, in a graph that has edges,
\* answered [] and left the item without an entry
C11_Witness ==
    /\ ret.op \in {"get_top_co_purchase", "get_recommendation"}
    /\ adjacency_list # <<>>
    /\ \E A \in Items :
         /\ A = (IF ret.op = "get_top_co_purchase" THEN ret.args[1] ELSE ret.args[1][1])
         /\ product_frequency[A] = 0
         /\ ~Has(adjacency_list, A)
    /\ ret.value = <<>>

\* C12 (strictly additive mutation): across every step, add_transaction with
\* any item list included, no product_frequency value and no recorded
\* adjacency_list count becomes smaller, and no item key or neighbor key that
\* existed before the step is gone after it.
C12_Additive ==
    [][/\ \A A \in Items : product_frequency'[A] >= product_frequency[A]
       /\ \A A \in Items : Has(adjacency_list, A) => Has(adjacency_list', A)
       /\ \A A \in Items, B \in Items :
            Recorded(adjacency_list, A, B) =>
                /\ Recorded(adjacency_list', A, B)
                /\ Get(Get(adjacency_list', A), B) >= Get(Get(adjacency_list, A), B)]_vars

\* a second transaction was added on top of the first: a count and a
\* frequency stand at 2 beside a count and a frequency that stayed at 1
C12_Witness ==
    /\ n_calls = 2
    /\ ret.op = "add_transaction"
    /\ \E A \in Items, B \in Items, C \in Items :
         /\ Recorded(adjacency_list, A, B)
         /\ Get(Get(adjacency_list, A), B) = 2
         /\ product_frequency[A] = 2
         /\ Recorded(adjacency_list, A, C)
         /\ Get(Get(adjacency_list, A), C) = 1
         /\ product_frequency[C] = 1

\* C13 (pair enumeration without double counting): the result of
\* get_top3_product_pairs holds each unordered pair at most once, every pair
\* in canonical form (first member <= second member) and with exactly the
\* recorded count adjacency_list[A][B], although the adjacency list stores
\* each pair in both directions.
C13_PairsOnce ==
    ret.op = "get_top3_product_pairs" =>
        /\ \A i, j \in DOMAIN ret.value :
             {ret.value[i][1][1], ret.value[i][1][2]}
               = {ret.value[j][1][1], ret.value[j][1][2]} => i = j
        /\ \A i \in DOMAIN ret.value :
             LET A == ret.value[i][1][1]
                 B == ret.value[i][1][2]
             IN  /\ StrLeq(A, B)
                 /\ Recorded(adjacency_list, A, B)
                 /\ ret.value[i][2] = Get(Get(adjacency_list, A), B)
                 /\ ret.value[i][2] = Get(Get(adjacency_list, B), A)

\* three pairs of different items returned, each stored in both directions,
\* one of them with count 2
C13_Witness ==
    /\ ret.op = "get_top3_product_pairs"
    /\ deduplicated
    /\ Len(ret.value) = 3
    /\ ret.value[1][2] = 2
    /\ \A i \in DOMAIN ret.value :
         /\ ret.value[i][1][1] # ret.value[i][1][2]
         /\ Recorded(adjacency_list, ret.value[i][1][2], ret.value[i][1][1])

====
